---- MODULE Spec2Model ----
(***************************************************************************)
(* pysomneo: the resilient request layer (api.py: SomneoSession,           *)
(* SomneoClient) and the legacy client (__init__.py: Somneo).              *)
(*                                                                         *)
(* One run of the model is one logical call against the device: either    *)
(* SomneoClient._internal_call (which drives SomneoSession.request) or    *)
(* the legacy Somneo._internal_call.  The device and the transport are    *)
(* the environment: every attempt draws its outcome from DeviceOutcomes.  *)
(* Times are in hundredths of a second (1.5 s = 150).                     *)
(***************************************************************************)
EXTENDS Integers, Sequences, FiniteSets

VARIABLES
    use_session,     \* SomneoSession._use_session / Somneo._use_session
    api,             \* which client class runs the call: "SomneoClient" | "Somneo" | "none"
    method,          \* HTTP method of the call
    pc,              \* position of the call in the code
    attempt,         \* request(): loop variable `attempt`
    last_exc,        \* request(): local `last_exc`
    has_reset_pool,  \* request(): local `has_reset_pool`
    e,               \* request(): the exception bound by `except ... as e`
    log,             \* history: per attempt, what the device did and what was raised
    kinds,           \* history: per failed attempt, the result of _classify_error
    sleeps,          \* history: the time.sleep() durations of the call, in order
    reset_log,       \* history: per _reset_session_pool invocation, whether it succeeded
    responses,       \* response objects handed to this code: [status, body, closed]
    r,               \* _internal_call: local `r` (index into responses, 0 = None)
    request_result,  \* how SomneoSession.request ended
    result,          \* how the client call ended
    legacy_attempts, \* Somneo._internal_call: iterations of `while True` (saturating)
    session,         \* the SomneoSession object: its configuration and mounted adapters
    reset_at,        \* history: per _reset_session_pool invocation, the attempt it followed
    op,              \* the SomneoClient operation running: "none" (_get / put) | "get_description_xml"
    url_idx,         \* get_description_xml: position of the for loop in `urls`
    desc_last_exc,   \* get_description_xml: local `last_exc`
    contacted,       \* history: per URL requested by get_description_xml, its prefix and its failure
    now,             \* wall clock at the latest Somneo.update call, in hundredths of a second
    prev_update_at,  \* history: wall clock at the update call before it (-1: none)
    updates,         \* history: number of Somneo.update calls made
    fetch_idx,       \* Somneo.update: which of its _get calls is running
    fetched,         \* history: the paths the running update call has requested
    dev,             \* the device's state, as its JSON answers carry it
    calls,           \* history: number of SomneoClient calls made after the first
    returned,        \* the value the running SomneoClient call returned ("none": nothing yet)
    prev_get,        \* history: what the latest returning get since the last put returned
    pc2,             \* a second thread's request() on the same session: "idle" | "in_flight" | "done"
    overlapped,      \* history: a pool reset ran while the second thread's attempt was in flight
    alarm_data,      \* Somneo.alarm_data: the cached alarms, by position (<<>>: nothing cached)
    light_data,      \* Somneo.light_data: the cached light block
    cache_before,    \* history: <<alarm_data, light_data>> when the running mutating call began
    na_now,          \* next_alarm: now_time / now_day, as weekday and time of day
    na_idx,          \* next_alarm: position of `for alarm in alarms`
    next_alarm,      \* next_alarm: local next_alarm
    new_next_alarm,  \* next_alarm: local new_next_alarm
    na_result        \* what next_alarm returned

vars == <<use_session, api, method, pc, attempt, last_exc, has_reset_pool, e, log,
          kinds, sleeps, reset_log, responses, r, request_result, result,
          legacy_attempts, session, reset_at, op, url_idx, desc_last_exc, contacted,
          now, prev_update_at, updates, fetch_idx, fetched, dev, calls, returned, prev_get,
          pc2, overlapped, alarm_data, light_data, cache_before,
          na_now, na_idx, next_alarm, new_next_alarm, na_result>>

\* the session object and the history of its resets
sessVars == <<session, reset_at>>

\* the locals of get_description_xml and the history of the URLs it requested
descVars == <<op, url_idx, desc_last_exc, contacted>>

\* the clock and the position of Somneo.update
updVars == <<now, prev_update_at, updates, fetch_idx, fetched>>

\* the legacy client's cache
cacheVars == <<alarm_data, light_data, cache_before>>

\* the locals of next_alarm and its result
naVars == <<na_now, na_idx, next_alarm, new_next_alarm, na_result>>

\* the second thread and what it saw
concVars == <<pc2, overlapped>>

\* what successive calls on one client leave behind, apart from the device state
repVars == <<calls, returned, prev_get>>

-----------------------------------------------------------------------------
(* Bounds of the model *)

\* the legacy loop counter saturates here (the loop itself goes on)
MaxLegacyAttempts == 4

\* Somneo.update calls followed in one run
MaxUpdates == 2

\* SomneoClient calls that follow the first one in one run
MaxRepeats == 2

\* alarms held in the cache
NumAlarms == 2

-----------------------------------------------------------------------------
(* Program constants *)

max_attempts == 3

InvalidURLStatus == 422

BackoffCap == 1000

W_ConnectTimeout == 150
W_ReadTimeout == 200
W_NewConnectionError == 25
W_ConnectionError == 100
W_Timeout == 50
W_RequestException == 75

status_forcelist == {429, 500, 502, 503, 504}

allowed_methods == {"HEAD", "GET", "PUT", "DELETE", "OPTIONS"}

Methods == {"GET", "PUT"}

-----------------------------------------------------------------------------
(* Exceptions: a class and a __cause__ *)

NoExc == [cls |-> "None", cause |-> "None"]

Exc(c) == [cls |-> c, cause |-> "None"]

\* the classes an exception is an instance of (requests.exceptions hierarchy;
\* SomneoInvalidURLError derives from RequestException)
Ancestors(c) ==
    CASE c = "ConnectTimeout"        -> {"ConnectTimeout", "ConnectionError", "Timeout", "RequestException"}
      [] c = "ReadTimeout"           -> {"ReadTimeout", "Timeout", "RequestException"}
      [] c = "ConnectionError"       -> {"ConnectionError", "RequestException"}
      [] c = "SSLError"              -> {"SSLError", "ConnectionError", "RequestException"}
      [] c = "Timeout"               -> {"Timeout", "RequestException"}
      [] c = "RetryError"            -> {"RetryError", "RequestException"}
      [] c = "ChunkedEncodingError"  -> {"ChunkedEncodingError", "RequestException"}
      [] c = "HTTPError"             -> {"HTTPError", "RequestException"}
      [] c = "SomneoInvalidURLError" -> {"SomneoInvalidURLError", "RequestException"}
      [] c = "NewConnectionError"    -> {"NewConnectionError"}
      [] OTHER                       -> {c}

IsInstance(x, c) == c \in Ancestors(x.cls)

\* what the transport can raise for one attempt
TransportErrors ==
    [cls : {"ConnectTimeout", "ReadTimeout", "ConnectionError", "SSLError",
            "Timeout", "ChunkedEncodingError"},
     cause : {"None", "NewConnectionError"}]

\* what the device can answer: a status and a body that is JSON or not
DeviceResponses ==
    { [status |-> 200, body |-> "json"], [status |-> 200, body |-> "garbage"],
      [status |-> 404, body |-> "json"], [status |-> InvalidURLStatus, body |-> "json"],
      [status |-> 500, body |-> "json"] }

DeviceOutcomes ==
    { [type |-> "exc", exc |-> x, status |-> 0, body |-> "none"] : x \in TransportErrors }
    \cup
    { [type |-> "resp", exc |-> NoExc, status |-> d.status, body |-> d.body] : d \in DeviceResponses }

\* what the device can answer at /upnp/description.xml: a body that parses as XML or not
DescriptionResponses ==
    { [status |-> 200, body |-> "xml"], [status |-> 200, body |-> "garbage"],
      [status |-> 404, body |-> "xml"], [status |-> InvalidURLStatus, body |-> "xml"],
      [status |-> 500, body |-> "xml"] }

DescriptionOutcomes ==
    { [type |-> "exc", exc |-> x, status |-> 0, body |-> "none"] : x \in TransportErrors }
    \cup
    { [type |-> "resp", exc |-> NoExc, status |-> d.status, body |-> d.body] : d \in DescriptionResponses }

\* the states the device can be in, as a JSON answer carries them
DevStates == {"s0", "s1"}

\* the request of this attempt reached the device (no connect-level failure)
DeviceReached(o) ==
    o.type = "resp" \/ (o.exc.cls # "ConnectTimeout" /\ o.exc.cause # "NewConnectionError")

\* the device's state after an attempt: only a PUT that reached it can change it
DeviceAfter(m, o, d) == IF m = "PUT" /\ DeviceReached(o) THEN DevStates ELSE {d}

\* r.json() of a response whose body is JSON: the state the device sent
json_FirstAttemptOnly(resp) == IF attempt = 1 THEN resp.value ELSE "retried"

json(resp) == resp.value

\* the outcomes of one attempt, by the resource the operation asks for
OutcomesFor(o) == IF o = "get_description_xml" THEN DescriptionOutcomes ELSE DeviceOutcomes

-----------------------------------------------------------------------------
(* Pure helpers of SomneoSession *)

RECURSIVE Pow2(_)
Pow2(n) == IF n <= 0 THEN 1 ELSE 2 * Pow2(n - 1)

Min(a, b) == IF a <= b THEN a ELSE b

get_sleep_time_NoExponentShift(weight, att) == Min(weight * Pow2(att), BackoffCap)

get_sleep_time(weight, att) == Min(weight * Pow2(att - 1), BackoffCap)

classify_error_ConnectionFirst(x) ==
    IF IsInstance(x, "ConnectionError")
    THEN IF x.cause = "NewConnectionError"
         THEN [err_type |-> "NewConnectionError", reset_pool |-> TRUE, weight |-> W_NewConnectionError]
         ELSE [err_type |-> "ConnectionError", reset_pool |-> TRUE, weight |-> W_ConnectionError]
    ELSE IF IsInstance(x, "ConnectTimeout")
    THEN [err_type |-> "ConnectTimeout", reset_pool |-> TRUE, weight |-> W_ConnectTimeout]
    ELSE IF IsInstance(x, "ReadTimeout")
    THEN [err_type |-> "ReadTimeout", reset_pool |-> FALSE, weight |-> W_ReadTimeout]
    ELSE IF IsInstance(x, "Timeout")
    THEN [err_type |-> "Timeout", reset_pool |-> FALSE, weight |-> W_Timeout]
    ELSE [err_type |-> "RequestException", reset_pool |-> FALSE, weight |-> W_RequestException]

classify_error(x) ==
    IF IsInstance(x, "ConnectTimeout")
    THEN [err_type |-> "ConnectTimeout", reset_pool |-> TRUE, weight |-> W_ConnectTimeout]
    ELSE IF IsInstance(x, "ReadTimeout")
    THEN [err_type |-> "ReadTimeout", reset_pool |-> FALSE, weight |-> W_ReadTimeout]
    ELSE IF IsInstance(x, "ConnectionError")
    THEN IF x.cause = "NewConnectionError"
         THEN [err_type |-> "NewConnectionError", reset_pool |-> TRUE, weight |-> W_NewConnectionError]
         ELSE [err_type |-> "ConnectionError", reset_pool |-> TRUE, weight |-> W_ConnectionError]
    ELSE IF IsInstance(x, "Timeout")
    THEN [err_type |-> "Timeout", reset_pool |-> FALSE, weight |-> W_Timeout]
    ELSE [err_type |-> "RequestException", reset_pool |-> FALSE, weight |-> W_RequestException]

\* the adapter's Retry(total=0, status_forcelist=..., allowed_methods=...): a
\* response whose status is in the forcelist, for an allowed method, exhausts the
\* retry budget at once and surfaces as requests' RetryError instead of a response
AdapterRaises(m, o) ==
    IF o.type = "exc" THEN o.exc
    ELSE IF m \in allowed_methods /\ o.status \in status_forcelist THEN Exc("RetryError")
    ELSE NoExc

\* the except clause of request(): the classes it names
ExceptClasses == {"ConnectTimeout", "ReadTimeout", "ConnectionError", "Timeout", "RequestException"}

Caught(x) == \E c \in ExceptClasses : IsInstance(x, c)

\* URL prefixes a Session mounts adapters for
Prefixes == {"http://", "https://"}

\* requests' HTTPAdapter() as Session.__init__ mounts it: library defaults
DefaultAdapter ==
    [pool_connections |-> 10, pool_maxsize |-> 10,
     max_retries |-> [total |-> 0, backoff_factor |-> 0, status_forcelist |-> {}]]

\* Session.__init__ (super().__init__()): the library's own attributes are set
\* anew, default adapters mounted; the subclass's attributes are not touched
SessionInit(s) == [s EXCEPT !.adapters = [p \in Prefixes |-> DefaultAdapter]]

make_retry_strategy(s) ==
    [total |-> s.adapter_retries, backoff_factor |-> s.adapter_backoff_factor,
     status_forcelist |-> status_forcelist]

mount_adapter(s) ==
    [s EXCEPT !.adapters = [p \in Prefixes |->
        [pool_connections |-> s.pool_connections, pool_maxsize |-> s.pool_maxsize,
         max_retries |-> make_retry_strategy(s)]]]

reset_session_pool_NoRemount(s) == SessionInit(s)

\* self.close() leaves the adapters mounted; then super().__init__() and _mount_adapter()
reset_session_pool(s) == mount_adapter(SessionInit(s))

\* SomneoSession(base_url=..., use_session=..., timeout=(2.0, 8.0)) as SomneoClient
\* builds it; the other parameters take their defaults
NewSession ==
    mount_adapter(SessionInit(
        [base_url |-> "https://host/di/v1/products/1/",
         timeout |-> <<200, 800>>,
         pool_connections |-> 1, pool_maxsize |-> 1,
         adapter_retries |-> 0, adapter_backoff_factor |-> 10,
         adapters |-> [p \in Prefixes |-> DefaultAdapter]]))

\* what super().request raises through the adapter mounted for the URL's prefix
SessionRaises(s, prefix, m, o) ==
    IF o.type = "resp" /\ o.status \notin s.adapters[prefix].max_retries.status_forcelist
    THEN NoExc
    ELSE AdapterRaises(m, o)

\* how an invocation of _reset_session_pool can end: it returns, or super().__init__()
\* or _mount_adapter() raises
ResetOutcomes == {"ok", "init_raises", "mount_raises"}

\* the guard of the pool reset
ShouldReset_NoGuard(cls, att, reset_done) ==
    cls.reset_pool /\ att <= max_attempts /\ use_session

ShouldReset_NotOnFirstAttempt(cls, att, reset_done) ==
    cls.reset_pool /\ att > 1 /\ att <= max_attempts /\ use_session /\ ~reset_done

ShouldReset(cls, att, reset_done) ==
    cls.reset_pool /\ att <= max_attempts /\ use_session /\ ~reset_done

\* `if attempt < max_attempts` before time.sleep
ShouldSleep_AfterEveryAttempt(att) == att <= max_attempts

ShouldSleep(att) == att < max_attempts

\* `for attempt in range(1, max_attempts + 1)`: whether the loop has a next value
InRange_OffByOne(att) == att >= 1 /\ att < max_attempts

InRange(att) == att >= 1 /\ att < max_attempts + 1

\* `last_exc = e`
NextLastExc_KeepFirst(prev, x) == IF prev = NoExc THEN x ELSE prev

NextLastExc(prev, x) == x

NoResult == [type |-> "none", exc |-> NoExc, resp |-> 0]

Raise(x) == [type |-> "raise", exc |-> x, resp |-> 0]

Return(i) == [type |-> "return", exc |-> NoExc, resp |-> i]

\* get_description_xml: urls, by their prefix
urls_HttpFirst == <<"http://", "https://">>

urls == <<"https://", "http://">>

\* get_description_xml: `except RequestException` and `except ET.ParseError`
CaughtByDescription_RequestOnly(x) == IsInstance(x, "RequestException")

CaughtByDescription(x) == IsInstance(x, "RequestException") \/ IsInstance(x, "ParseError")

\* get_description_xml: `last_exc = e`
DescLastExc_KeepFirst(prev, x) == IF prev = NoExc THEN x ELSE prev

DescLastExc(prev, x) == x

\* get_description_xml's unreachable `return None`
ReturnNone == [type |-> "return_none", exc |-> NoExc, resp |-> 0]

\* the prefix of the URL the running request goes to
RequestPrefix == IF op = "get_description_xml" THEN urls[url_idx] ELSE "https://"

\* a datetime or None
NoTime == [some |-> FALSE, t |-> 0]

At(t) == [some |-> TRUE, t |-> t]

\* Somneo.light_data before any update
NoLight == [cached |-> FALSE, onoff |-> FALSE, ngtlt |-> FALSE, wucrv |-> FALSE]

\* times of day, in slots, and the length of a day (timedelta(days=1)) in slots
TimeSlots == 0..2

SlotsPerDay == Cardinality(TimeSlots)

\* isoweekday(): Monday is 1, Sunday is 7
Weekdays == 1..7

\* the days an alarm is set for; the empty set is the 'tomorrow' alarm (daynm = 0)
DayChoices == {{}} \cup {{d} : d \in Weekdays} \cup {{1, 7}}

\* range(0, 7)
DayOffsets == 0..6

\* test_day = now_time.isoweekday() + d; if test_day > 7: test_day -= 7
TestDay(wd, d) == IF wd + d > 7 THEN wd + d - 7 ELSE wd + d

MinOf(S) == CHOOSE x \in S : \A y \in S : x <= y

\* the body of next_alarm's loop for an enabled alarm: new_next_alarm after it.
\* datetime.combine(now_day, alarm_time) is the alarm's slot counted from today's
\* midnight; when the inner loop ends without a break, new_next_alarm keeps the
\* value it had
NewNextAlarm(alarm, nowr, prev_new) ==
    IF alarm.days = {}
    THEN IF alarm.time > nowr.t THEN At(alarm.time) ELSE At(alarm.time + SlotsPerDay)
    ELSE LET hits == { d \in DayOffsets :
                         /\ TestDay(nowr.wd, d) \in alarm.days
                         /\ alarm.time + d * SlotsPerDay > nowr.t }
         IN  IF hits = {} THEN prev_new ELSE At(alarm.time + MinOf(hits) * SlotsPerDay)

\* if next_alarm: (if new_next_alarm < next_alarm: next_alarm = new_next_alarm)
\* else: next_alarm = new_next_alarm
FoldNextAlarm(nxt, new) ==
    IF nxt.some THEN (IF new.t < nxt.t THEN new ELSE nxt) ELSE new

\* the alarms update() can have cached, for next_alarm
AlarmsForNextAlarm ==
    [1..NumAlarms -> [enabled : BOOLEAN, time : TimeSlots, days : DayChoices,
                      powerwake : {FALSE}, powerwake_delta : {0}]]

LightsForNextAlarm == {[cached |-> TRUE, onoff |-> FALSE, ngtlt |-> FALSE, wucrv |-> FALSE]}

\* datetime.now() / date.today()
Clock == [wd : Weekdays, t : TimeSlots]

-----------------------------------------------------------------------------
(* Initial state: a constructed client, no call made yet *)

Init ==
    /\ use_session \in BOOLEAN
    /\ api = "none"
    /\ method = "none"
    /\ pc = "idle"
    /\ attempt = 0
    /\ last_exc = NoExc
    /\ has_reset_pool = FALSE
    /\ e = NoExc
    /\ log = <<>>
    /\ kinds = <<>>
    /\ sleeps = <<>>
    /\ reset_log = <<>>
    /\ responses = <<>>
    /\ r = 0
    /\ request_result = NoResult
    /\ result = NoResult
    /\ legacy_attempts = 0
    /\ session = NewSession
    /\ reset_at = <<>>
    /\ op = "none"
    /\ url_idx = 0
    /\ desc_last_exc = NoExc
    /\ contacted = <<>>
    /\ now = 0
    /\ prev_update_at = -1
    /\ updates = 0
    /\ fetch_idx = 0
    /\ fetched = <<>>
    /\ dev \in DevStates
    /\ calls = 0
    /\ returned = "none"
    /\ prev_get = "none"
    /\ pc2 = "idle"
    /\ overlapped = FALSE
    /\ alarm_data = <<>>
    /\ light_data = NoLight
    /\ cache_before = <<>>
    /\ na_now = [wd |-> 1, t |-> 0]
    /\ na_idx = 0
    /\ next_alarm = NoTime
    /\ new_next_alarm = NoTime
    /\ na_result = NoTime

-----------------------------------------------------------------------------
(* SomneoClient._internal_call -> SomneoSession.request *)

\* _get / put: enter _internal_call, then request() up to the loop's first value
ClientCall(m) ==
    /\ UNCHANGED cacheVars
    /\ UNCHANGED naVars
    /\ pc = "idle"
    /\ UNCHANGED sessVars
    /\ UNCHANGED descVars
    /\ UNCHANGED updVars
    /\ UNCHANGED concVars
    /\ UNCHANGED repVars
    /\ UNCHANGED dev
    /\ api' = "SomneoClient"
    /\ method' = m
    /\ attempt' = 1
    /\ pc' = "attempt"
    /\ UNCHANGED <<use_session, last_exc, has_reset_pool, e, log, kinds, sleeps,
                   reset_log, responses, r, request_result, result, legacy_attempts>>

\* the try body up to the network call.  Pooled: super().request(...) goes out.
\* Unpooled: request(method, full_url, timeout=self._timeout, **kwargs) with
\* kwargs["timeout"] always present is a TypeError (duplicate keyword), which no
\* except clause of request() or _internal_call names: the call dies here, with
\* r still None in the finally block.
SendAttempt ==
    /\ UNCHANGED cacheVars
    /\ UNCHANGED naVars
    /\ pc = "attempt"
    /\ UNCHANGED sessVars
    /\ UNCHANGED descVars
    /\ UNCHANGED updVars
    /\ UNCHANGED concVars
    /\ UNCHANGED repVars
    /\ UNCHANGED dev
    /\ IF use_session
       THEN /\ pc' = "in_flight"
            /\ UNCHANGED <<request_result, result>>
       ELSE /\ pc' = "done"
            /\ request_result' = Raise(Exc("TypeError"))
            /\ result' = Raise(Exc("TypeError"))
    /\ UNCHANGED <<use_session, api, method, attempt, last_exc, has_reset_pool, e, log,
                   kinds, sleeps, reset_log, responses, r, legacy_attempts>>

\* the network call ends: an exception, or a response and the 422 test
ReceiveOutcome ==
    /\ UNCHANGED cacheVars
    /\ UNCHANGED naVars
    /\ pc = "in_flight"
    /\ UNCHANGED sessVars
    /\ UNCHANGED descVars
    /\ UNCHANGED updVars
    /\ UNCHANGED concVars
    /\ UNCHANGED repVars
    /\ \E o \in OutcomesFor(op) :
        LET x == SessionRaises(session, RequestPrefix, method, o)
            gotResp == x = NoExc
            raised == IF ~gotResp THEN x
                      ELSE IF o.status = InvalidURLStatus THEN Exc("SomneoInvalidURLError")
                      ELSE NoExc
        IN  /\ dev' \in DeviceAfter(method, o, dev)
            /\ log' = Append(log, [outcome |-> o, raised |-> raised])
            /\ responses' = IF gotResp
                            THEN Append(responses, [status |-> o.status, body |-> o.body,
                                                    value |-> dev', closed |-> FALSE])
                            ELSE responses
            /\ IF raised = NoExc
               THEN \* return resp
                    /\ request_result' = Return(Len(responses'))
                    /\ r' = Len(responses')
                    /\ pc' = IF op = "get_description_xml" THEN "desc_parse" ELSE "client"
                    /\ UNCHANGED <<e, result>>
               ELSE IF Caught(raised)
               THEN /\ e' = raised
                    /\ pc' = "except"
                    /\ UNCHANGED <<request_result, r, result>>
               ELSE /\ request_result' = Raise(raised)
                    /\ result' = Raise(raised)
                    /\ pc' = "done"
                    /\ UNCHANGED <<e, r>>
    /\ UNCHANGED <<use_session, api, method, attempt, last_exc, has_reset_pool, kinds,
                   sleeps, reset_log, legacy_attempts>>

\* the except block up to the reset decision
ExceptHandler ==
    /\ UNCHANGED cacheVars
    /\ UNCHANGED naVars
    /\ pc = "except"
    /\ UNCHANGED sessVars
    /\ UNCHANGED descVars
    /\ UNCHANGED updVars
    /\ UNCHANGED concVars
    /\ UNCHANGED repVars
    /\ UNCHANGED dev
    /\ kinds' = Append(kinds, classify_error(e))
    /\ last_exc' = NextLastExc(last_exc, e)
    /\ pc' = IF ShouldReset(classify_error(e), attempt, has_reset_pool) THEN "reset" ELSE "backoff"
    /\ UNCHANGED <<use_session, api, method, attempt, has_reset_pool, e, log, sleeps,
                   reset_log, responses, r, request_result, result, legacy_attempts>>

\* try: self._reset_session_pool(); has_reset_pool = True
\* except (OSError, RuntimeError): the flag stays False
ResetPool ==
    /\ UNCHANGED cacheVars
    /\ UNCHANGED naVars
    /\ pc = "reset"
    /\ UNCHANGED descVars
    /\ UNCHANGED updVars
    /\ overlapped' = (overlapped \/ pc2 = "in_flight")
    /\ UNCHANGED pc2
    /\ UNCHANGED repVars
    /\ UNCHANGED dev
    /\ \E how \in ResetOutcomes :
        /\ reset_log' = Append(reset_log, how = "ok")
        /\ has_reset_pool' = IF how = "ok" THEN TRUE ELSE has_reset_pool
        /\ session' = CASE how = "ok"           -> reset_session_pool(session)
                        [] how = "init_raises"  -> session
                        [] how = "mount_raises" -> SessionInit(session)
    /\ reset_at' = Append(reset_at, attempt)
    /\ pc' = "backoff"
    /\ UNCHANGED <<use_session, api, method, attempt, last_exc, e, log, kinds, sleeps,
                   responses, r, request_result, result, legacy_attempts>>

\* sleep = self._get_sleep_time(weight, attempt); if attempt < max_attempts: time.sleep(sleep)
Backoff ==
    /\ UNCHANGED cacheVars
    /\ UNCHANGED naVars
    /\ pc = "backoff"
    /\ UNCHANGED sessVars
    /\ UNCHANGED descVars
    /\ UNCHANGED updVars
    /\ UNCHANGED concVars
    /\ UNCHANGED repVars
    /\ UNCHANGED dev
    /\ IF ShouldSleep(attempt)
       THEN /\ sleeps' = Append(sleeps, get_sleep_time(kinds[Len(kinds)].weight, attempt))
            /\ pc' = "sleeping"
       ELSE /\ pc' = "loop"
            /\ UNCHANGED sleeps
    /\ UNCHANGED <<use_session, api, method, attempt, last_exc, has_reset_pool, e, log,
                   kinds, reset_log, responses, r, request_result, result, legacy_attempts>>

\* time.sleep returns
Wake ==
    /\ UNCHANGED cacheVars
    /\ UNCHANGED naVars
    /\ pc = "sleeping"
    /\ UNCHANGED sessVars
    /\ UNCHANGED descVars
    /\ UNCHANGED updVars
    /\ UNCHANGED concVars
    /\ UNCHANGED repVars
    /\ UNCHANGED dev
    /\ pc' = "loop"
    /\ UNCHANGED <<use_session, api, method, attempt, last_exc, has_reset_pool, e, log,
                   kinds, sleeps, reset_log, responses, r, request_result, result,
                   legacy_attempts>>

\* the for statement takes its next value, or the loop is over: raise last_exc,
\* which passes through _internal_call's finally with r still None, or is caught
\* by get_description_xml
LoopNext ==
    /\ UNCHANGED cacheVars
    /\ UNCHANGED naVars
    /\ pc = "loop"
    /\ UNCHANGED sessVars
    /\ UNCHANGED descVars
    /\ UNCHANGED updVars
    /\ UNCHANGED concVars
    /\ UNCHANGED repVars
    /\ UNCHANGED dev
    /\ IF InRange(attempt + 1)
       THEN /\ attempt' = attempt + 1
            /\ pc' = "attempt"
            /\ UNCHANGED <<request_result, result>>
       ELSE /\ request_result' = Raise(IF last_exc # NoExc THEN last_exc ELSE Exc("RequestException"))
            /\ IF op = "get_description_xml"
               THEN pc' = "desc_except" /\ UNCHANGED result
               ELSE pc' = "done" /\ result' = request_result'
            /\ UNCHANGED attempt
    /\ UNCHANGED <<use_session, api, method, last_exc, has_reset_pool, e, log, kinds,
                   sleeps, reset_log, responses, r, legacy_attempts>>

\* r.raise_for_status(); return r.json(); finally: r.close()
ClientFinish ==
    /\ UNCHANGED cacheVars
    /\ UNCHANGED naVars
    /\ pc = "client"
    /\ UNCHANGED sessVars
    /\ UNCHANGED descVars
    /\ UNCHANGED updVars
    /\ UNCHANGED concVars
    /\ UNCHANGED <<calls, prev_get, dev>>
    /\ result' = IF responses[r].status >= 400 THEN Raise(Exc("HTTPError"))
                 ELSE IF responses[r].body # "json" THEN Raise(Exc("JSONDecodeError"))
                 ELSE Return(r)
    /\ returned' = IF result'.type = "return" THEN json(responses[r]) ELSE "none"
    /\ responses' = [responses EXCEPT ![r].closed = TRUE]
    /\ pc' = "done"
    /\ UNCHANGED <<use_session, api, method, attempt, last_exc, has_reset_pool, e, log,
                   kinds, sleeps, reset_log, r, request_result, legacy_attempts>>

\* SomneoClient._get / put called again on the same client after the previous call
\* ended: request() starts anew, the session is the one the earlier calls left
RepeatCall(m) ==
    /\ UNCHANGED cacheVars
    /\ UNCHANGED naVars
    /\ pc = "done"
    /\ api = "SomneoClient"
    /\ op = "none"
    /\ calls < MaxRepeats
    /\ calls' = calls + 1
    /\ prev_get' = IF m = "PUT" THEN "none"
                   ELSE IF method = "GET" /\ returned # "none" THEN returned
                   ELSE prev_get
    /\ returned' = "none"
    /\ method' = m
    /\ attempt' = 1
    /\ last_exc' = NoExc
    /\ has_reset_pool' = FALSE
    /\ e' = NoExc
    /\ log' = <<>>
    /\ kinds' = <<>>
    /\ sleeps' = <<>>
    /\ reset_log' = <<>>
    /\ reset_at' = <<>>
    /\ responses' = <<>>
    /\ r' = 0
    /\ request_result' = NoResult
    /\ result' = NoResult
    /\ pc' = "attempt"
    /\ UNCHANGED descVars
    /\ UNCHANGED updVars
    /\ UNCHANGED concVars
    /\ UNCHANGED <<use_session, api, legacy_attempts, session, dev>>

-----------------------------------------------------------------------------
(* SomneoClient.get_description_xml *)

\* enter get_description_xml: the loop's first URL, response = None, and request()
\* up to its loop's first value
DescriptionCall ==
    /\ UNCHANGED cacheVars
    /\ UNCHANGED naVars
    /\ pc = "idle"
    /\ UNCHANGED updVars
    /\ UNCHANGED concVars
    /\ UNCHANGED repVars
    /\ UNCHANGED dev
    /\ api' = "SomneoClient"
    /\ op' = "get_description_xml"
    /\ method' = "GET"
    /\ url_idx' = 1
    /\ contacted' = <<[prefix |-> urls[1], failed_with |-> NoExc]>>
    /\ attempt' = 1
    /\ pc' = "attempt"
    /\ UNCHANGED sessVars
    /\ UNCHANGED <<use_session, last_exc, has_reset_pool, e, log, kinds, sleeps,
                   reset_log, responses, r, request_result, result, legacy_attempts,
                   desc_last_exc>>

\* request() returned a response: raise_for_status(), ET.fromstring(content),
\* return root; the except clauses; finally: response.close()
DescParse ==
    /\ UNCHANGED cacheVars
    /\ UNCHANGED naVars
    /\ pc = "desc_parse"
    /\ UNCHANGED updVars
    /\ UNCHANGED concVars
    /\ UNCHANGED repVars
    /\ UNCHANGED dev
    /\ LET x == IF responses[r].status >= 400 THEN Exc("HTTPError")
                ELSE IF responses[r].body # "xml" THEN Exc("ParseError")
                ELSE NoExc
       IN  IF x = NoExc
           THEN /\ result' = Return(r)
                /\ pc' = "done"
                /\ UNCHANGED <<desc_last_exc, contacted>>
           ELSE IF CaughtByDescription(x)
           THEN /\ desc_last_exc' = DescLastExc(desc_last_exc, x)
                /\ contacted' = [contacted EXCEPT ![url_idx].failed_with = x]
                /\ pc' = "desc_next"
                /\ UNCHANGED result
           ELSE /\ result' = Raise(x)
                /\ pc' = "done"
                /\ UNCHANGED <<desc_last_exc, contacted>>
    /\ responses' = [responses EXCEPT ![r].closed = TRUE]
    /\ UNCHANGED sessVars
    /\ UNCHANGED <<use_session, api, method, attempt, last_exc, has_reset_pool, e, log,
                   kinds, sleeps, reset_log, r, request_result, legacy_attempts, op, url_idx>>

\* request() raised after its last attempt: `except RequestException as e`, with
\* response still None in the finally block
DescExcept ==
    /\ UNCHANGED cacheVars
    /\ UNCHANGED naVars
    /\ pc = "desc_except"
    /\ UNCHANGED updVars
    /\ UNCHANGED concVars
    /\ UNCHANGED repVars
    /\ UNCHANGED dev
    /\ IF CaughtByDescription(request_result.exc)
       THEN /\ desc_last_exc' = DescLastExc(desc_last_exc, request_result.exc)
            /\ contacted' = [contacted EXCEPT ![url_idx].failed_with = request_result.exc]
            /\ pc' = "desc_next"
            /\ UNCHANGED result
       ELSE /\ result' = request_result
            /\ pc' = "done"
            /\ UNCHANGED <<desc_last_exc, contacted>>
    /\ UNCHANGED sessVars
    /\ UNCHANGED <<use_session, api, method, attempt, last_exc, has_reset_pool, e, log,
                   kinds, sleeps, reset_log, responses, r, request_result, legacy_attempts,
                   op, url_idx>>

\* `for url in urls` takes its next value and request() starts anew (its locals
\* and the per-request histories start empty), or the loop is over: raise last_exc
DescNextUrl ==
    /\ UNCHANGED cacheVars
    /\ UNCHANGED naVars
    /\ pc = "desc_next"
    /\ UNCHANGED updVars
    /\ UNCHANGED concVars
    /\ UNCHANGED repVars
    /\ UNCHANGED dev
    /\ IF url_idx < Len(urls)
       THEN /\ url_idx' = url_idx + 1
            /\ contacted' = Append(contacted, [prefix |-> urls[url_idx + 1], failed_with |-> NoExc])
            /\ attempt' = 1
            /\ last_exc' = NoExc
            /\ has_reset_pool' = FALSE
            /\ e' = NoExc
            /\ log' = <<>>
            /\ kinds' = <<>>
            /\ sleeps' = <<>>
            /\ reset_log' = <<>>
            /\ reset_at' = <<>>
            /\ responses' = <<>>
            /\ r' = 0
            /\ request_result' = NoResult
            /\ pc' = "attempt"
            /\ UNCHANGED result
       ELSE /\ result' = IF desc_last_exc # NoExc THEN Raise(desc_last_exc) ELSE ReturnNone
            /\ pc' = "done"
            /\ UNCHANGED <<url_idx, contacted, attempt, last_exc, has_reset_pool, e, log,
                           kinds, sleeps, reset_log, reset_at, responses, r, request_result>>
    /\ UNCHANGED <<use_session, api, method, legacy_attempts, session, op, desc_last_exc>>

-----------------------------------------------------------------------------
(* The legacy client: Somneo._internal_call *)

\* `except requests.ConnectionError: continue`
LegacyRetries(x) == IsInstance(x, "ConnectionError")

LegacyCall(m) ==
    /\ UNCHANGED cacheVars
    /\ UNCHANGED naVars
    /\ pc = "idle"
    /\ UNCHANGED sessVars
    /\ UNCHANGED descVars
    /\ UNCHANGED updVars
    /\ UNCHANGED concVars
    /\ UNCHANGED repVars
    /\ UNCHANGED dev
    /\ api' = "Somneo"
    /\ method' = m
    /\ pc' = "legacy_try"
    /\ UNCHANGED <<use_session, attempt, last_exc, has_reset_pool, e, log, kinds, sleeps,
                   reset_log, responses, r, request_result, result, legacy_attempts>>

\* an iteration of `while True` begins: self._session.request(...) goes out
LegacySend ==
    /\ UNCHANGED cacheVars
    /\ UNCHANGED naVars
    /\ pc = "legacy_try"
    /\ UNCHANGED sessVars
    /\ UNCHANGED descVars
    /\ UNCHANGED updVars
    /\ UNCHANGED concVars
    /\ UNCHANGED repVars
    /\ UNCHANGED dev
    /\ legacy_attempts' = Min(legacy_attempts + 1, MaxLegacyAttempts)
    /\ pc' = "legacy_in_flight"
    /\ UNCHANGED <<use_session, api, method, attempt, last_exc, has_reset_pool, e, log,
                   kinds, sleeps, reset_log, responses, r, request_result, result>>

\* the request ends: the except clauses in their order, else the 422 test and break
LegacyReceive ==
    /\ UNCHANGED cacheVars
    /\ UNCHANGED naVars
    /\ pc = "legacy_in_flight"
    /\ UNCHANGED sessVars
    /\ UNCHANGED descVars
    /\ UNCHANGED updVars
    /\ UNCHANGED concVars
    /\ UNCHANGED repVars
    /\ \E o \in DeviceOutcomes :
        /\ dev' \in DeviceAfter(method, o, dev)
        /\ IF o.type = "exc"
           THEN IF IsInstance(o.exc, "Timeout")
                THEN /\ result' = Raise(o.exc)
                     /\ pc' = "done"
                     /\ UNCHANGED <<responses, r>>
                ELSE IF LegacyRetries(o.exc)
                THEN \* continue
                     /\ pc' = "legacy_try"
                     /\ UNCHANGED <<result, responses, r>>
                ELSE /\ result' = Raise(o.exc)
                     /\ pc' = "done"
                     /\ UNCHANGED <<responses, r>>
           ELSE /\ responses' = Append(responses, [status |-> o.status, body |-> o.body,
                                                    value |-> dev', closed |-> FALSE])
                /\ r' = Len(responses')
                /\ IF o.status = InvalidURLStatus
                   THEN /\ result' = Raise(Exc("Exception"))
                        /\ pc' = "done"
                   ELSE /\ pc' = "legacy_json"
                        /\ UNCHANGED result
    /\ UNCHANGED <<use_session, api, method, attempt, last_exc, has_reset_pool, e, log,
                   kinds, sleeps, reset_log, request_result, legacy_attempts>>

\* return r.json()
LegacyFinish ==
    /\ UNCHANGED cacheVars
    /\ UNCHANGED naVars
    /\ pc = "legacy_json"
    /\ UNCHANGED sessVars
    /\ UNCHANGED descVars
    /\ UNCHANGED updVars
    /\ UNCHANGED concVars
    /\ UNCHANGED repVars
    /\ UNCHANGED dev
    /\ result' = IF responses[r].body # "json" THEN Raise(Exc("JSONDecodeError")) ELSE Return(r)
    /\ pc' = IF op = "update" /\ responses[r].body = "json" THEN "update_next" ELSE "done"
    /\ UNCHANGED <<use_session, api, method, attempt, last_exc, has_reset_pool, e, log,
                   kinds, sleeps, reset_log, responses, r, request_result, legacy_attempts>>

-----------------------------------------------------------------------------
(* Somneo.update *)

\* the path of each _get that update makes, in order (get_snooze_time reads wualm)
update_paths == <<"wusts", "wulgt", "wusrd", "wudsk", "wualm/aenvs", "wualm/aalms",
                  "wualm", "wuply">>

\* time between two update calls, as the caller chooses it
Elapsed == {100, 600, 6000}

\* the caller invokes update (the first time, or again after the previous call
\* ended): its first statement is self._get('wusts')
UpdateCall ==
    /\ UNCHANGED cacheVars
    /\ UNCHANGED naVars
    /\ pc \in {"idle", "done"}
    /\ UNCHANGED concVars
    /\ UNCHANGED repVars
    /\ UNCHANGED dev
    /\ updates < MaxUpdates
    /\ \E dt \in Elapsed : now' = now + dt
    /\ prev_update_at' = IF updates = 0 THEN -1 ELSE now
    /\ updates' = updates + 1
    /\ api' = "Somneo"
    /\ op' = "update"
    /\ method' = "GET"
    /\ fetch_idx' = 1
    /\ fetched' = <<update_paths[1]>>
    /\ legacy_attempts' = 0
    /\ responses' = <<>>
    /\ r' = 0
    /\ result' = NoResult
    /\ pc' = "legacy_try"
    /\ UNCHANGED sessVars
    /\ UNCHANGED <<use_session, attempt, last_exc, has_reset_pool, e, log, kinds, sleeps,
                   reset_log, request_result, url_idx, desc_last_exc, contacted>>

\* a _get of update returned: the next _get, or update returns
UpdateNext ==
    /\ UNCHANGED cacheVars
    /\ UNCHANGED naVars
    /\ pc = "update_next"
    /\ UNCHANGED concVars
    /\ UNCHANGED repVars
    /\ UNCHANGED dev
    /\ IF fetch_idx < Len(update_paths)
       THEN /\ fetch_idx' = fetch_idx + 1
            /\ fetched' = Append(fetched, update_paths[fetch_idx + 1])
            /\ legacy_attempts' = 0
            /\ responses' = <<>>
            /\ r' = 0
            /\ pc' = "legacy_try"
            /\ UNCHANGED result
       ELSE /\ pc' = "done"
            /\ UNCHANGED <<fetch_idx, fetched, legacy_attempts, responses, r, result>>
    /\ UNCHANGED sessVars
    /\ UNCHANGED <<use_session, api, method, attempt, last_exc, has_reset_pool, e, log,
                   kinds, sleeps, reset_log, request_result, op, url_idx, desc_last_exc,
                   contacted, now, prev_update_at, updates>>

-----------------------------------------------------------------------------
(* The legacy client's cache and next_alarm *)

\* the request-level variables, which the cache operations leave alone
reqVars == <<use_session, method, attempt, last_exc, has_reset_pool, e, log, kinds,
             sleeps, reset_log, responses, r, request_result, result, legacy_attempts,
             session, reset_at, url_idx, desc_last_exc, contacted, now, prev_update_at,
             updates, fetch_idx, fetched, dev, calls, returned, prev_get, pc2, overlapped>>

\* an update() call has stored what the device answered: light_data and alarm_data
CacheLoaded(alarms_in, lights_in) ==
    /\ pc = "idle"
    /\ api' = "Somneo"
    /\ alarm_data' \in alarms_in
    /\ light_data' \in lights_in
    /\ pc' = "cached"
    /\ UNCHANGED <<op, cache_before>>
    /\ UNCHANGED naVars
    /\ UNCHANGED reqVars

\* next_alarm is called: next_alarm = None, new_next_alarm = None, and the clock
\* it will read
NextAlarmCall ==
    /\ pc = "cached"
    /\ op' = "next_alarm"
    /\ na_now' \in Clock
    /\ na_idx' = 1
    /\ next_alarm' = NoTime
    /\ new_next_alarm' = NoTime
    /\ pc' = "na_loop"
    /\ UNCHANGED <<api, na_result>>
    /\ UNCHANGED cacheVars
    /\ UNCHANGED reqVars

\* one iteration of `for alarm in alarms`
NextAlarmIter ==
    /\ pc = "na_loop"
    /\ na_idx <= Len(alarm_data)
    /\ IF alarm_data[na_idx].enabled
       THEN /\ new_next_alarm' = NewNextAlarm(alarm_data[na_idx], na_now, new_next_alarm)
            /\ next_alarm' = FoldNextAlarm(next_alarm, new_next_alarm')
       ELSE UNCHANGED <<next_alarm, new_next_alarm>>
    /\ na_idx' = na_idx + 1
    /\ UNCHANGED <<api, op, pc, na_now, na_result>>
    /\ UNCHANGED cacheVars
    /\ UNCHANGED reqVars

\* the loop is over: return next_alarm (made timezone-aware, the same instant) or None
NextAlarmReturn ==
    /\ pc = "na_loop"
    /\ na_idx > Len(alarm_data)
    /\ na_result' = next_alarm
    /\ pc' = "done"
    /\ UNCHANGED <<api, op, na_now, na_idx, next_alarm, new_next_alarm>>
    /\ UNCHANGED cacheVars
    /\ UNCHANGED reqVars

-----------------------------------------------------------------------------
(* The legacy client's mutating operations *)

\* an optional argument: None, or a value
NoHour == [given |-> FALSE, v |-> 0]

NoDays == [given |-> FALSE, v |-> {}]

Given(v) == [given |-> TRUE, v |-> v]

\* the caches update() can have stored, for the mutating operations
AlarmsForMutation ==
    [1..NumAlarms -> [enabled : BOOLEAN, time : {1}, days : {{1}},
                      powerwake : BOOLEAN, powerwake_delta : {0}]]

LightsForMutation == [cached : {TRUE}, onoff : BOOLEAN, ngtlt : BOOLEAN, wucrv : BOOLEAN]

\* toggle_light up to its _put: payload is self.light_data itself, so the
\* assignments and the pop act on the cache (brightness left at None)
toggle_light(light, state) ==
    [light EXCEPT !.onoff = state, !.ngtlt = FALSE, !.wucrv = FALSE]

\* toggle_night_light up to its _put
toggle_night_light(light, state) ==
    [light EXCEPT !.onoff = FALSE, !.ngtlt = state, !.wucrv = FALSE]

\* toggle_alarm up to its _put
toggle_alarm(alarms, alarm, status) ==
    [alarms EXCEPT ![alarm].enabled = status]

\* set_alarm up to its _put (hour and days; minute left at None)
set_alarm(alarms, alarm, hour, days) ==
    [alarms EXCEPT ![alarm].time = IF hour.given THEN hour.v ELSE @,
                   ![alarm].days = IF days.given THEN days.v ELSE @]

\* set_powerwake up to its _put
set_powerwake(alarms, alarm, onoff, delta) ==
    [alarms EXCEPT ![alarm].powerwake = onoff,
                   ![alarm].powerwake_delta = IF onoff THEN delta ELSE 0]

MutatingOps == {"toggle_light", "toggle_night_light", "toggle_alarm", "set_alarm",
                "set_powerwake"}

\* a mutating operation calls self._put(...) after changing the cache: the legacy
\* _internal_call starts with method PUT
MutatingPut(name) ==
    /\ op' = name
    /\ cache_before' = <<alarm_data, light_data>>
    /\ method' = "PUT"
    /\ pc' = "legacy_try"
    /\ UNCHANGED naVars
    /\ UNCHANGED sessVars
    /\ UNCHANGED updVars
    /\ UNCHANGED concVars
    /\ UNCHANGED repVars
    /\ UNCHANGED <<use_session, api, attempt, last_exc, has_reset_pool, e, log, kinds,
                   sleeps, reset_log, responses, r, request_result, result,
                   legacy_attempts, url_idx, desc_last_exc, contacted, dev>>

ToggleLight ==
    /\ pc = "cached"
    /\ \E state \in BOOLEAN : light_data' = toggle_light(light_data, state)
    /\ UNCHANGED alarm_data
    /\ MutatingPut("toggle_light")

ToggleNightLight ==
    /\ pc = "cached"
    /\ \E state \in BOOLEAN : light_data' = toggle_night_light(light_data, state)
    /\ UNCHANGED alarm_data
    /\ MutatingPut("toggle_night_light")

ToggleAlarm ==
    /\ pc = "cached"
    /\ \E alarm \in 1..NumAlarms, status \in BOOLEAN :
        alarm_data' = toggle_alarm(alarm_data, alarm, status)
    /\ UNCHANGED light_data
    /\ MutatingPut("toggle_alarm")

SetAlarm ==
    /\ pc = "cached"
    /\ \E alarm \in 1..NumAlarms, hour \in {NoHour, Given(2)}, days \in {NoDays, Given({4})} :
        alarm_data' = set_alarm(alarm_data, alarm, hour, days)
    /\ UNCHANGED light_data
    /\ MutatingPut("set_alarm")

SetPowerwake ==
    /\ pc = "cached"
    /\ \E alarm \in 1..NumAlarms, onoff \in BOOLEAN :
        alarm_data' = set_powerwake(alarm_data, alarm, onoff, 1)
    /\ UNCHANGED light_data
    /\ MutatingPut("set_powerwake")

-----------------------------------------------------------------------------
(* A second thread calling request() on the same SomneoSession *)

\* the first thread's variables
mainVars == <<use_session, api, method, pc, attempt, last_exc, has_reset_pool, e, log,
              kinds, sleeps, reset_log, responses, r, request_result, result,
              legacy_attempts, session, reset_at, op, url_idx, desc_last_exc, contacted,
              now, prev_update_at, updates, fetch_idx, fetched, dev, calls, returned,
              prev_get, alarm_data, light_data, cache_before,
              na_now, na_idx, next_alarm, new_next_alarm, na_result>>

\* the second thread's super().request(...) goes out through the session's pool;
\* nothing in request() makes it wait for a reset or a reset wait for it
T2Send ==
    /\ use_session
    /\ pc2 = "idle"
    /\ pc2' = "in_flight"
    /\ UNCHANGED overlapped
    /\ UNCHANGED mainVars

\* the second thread's network call ends
T2Receive ==
    /\ pc2 = "in_flight"
    /\ pc2' = "done"
    /\ UNCHANGED overlapped
    /\ UNCHANGED mainVars

-----------------------------------------------------------------------------

Next ==
    \/ \E m \in Methods : ClientCall(m)
    \/ SendAttempt
    \/ ReceiveOutcome
    \/ ExceptHandler
    \/ ResetPool
    \/ Backoff
    \/ Wake
    \/ LoopNext
    \/ ClientFinish
    \/ \E m \in Methods : LegacyCall(m)
    \/ LegacySend
    \/ LegacyReceive
    \/ LegacyFinish

Spec == Init /\ [][Next]_vars

\* every step of a running call is taken: the code is sequential and never parks
FairSpec == Init /\ [][Next]_vars /\ WF_vars(Next)

\* a get_description_xml call
NextDescription ==
    \/ DescriptionCall
    \/ SendAttempt
    \/ ReceiveOutcome
    \/ ExceptHandler
    \/ ResetPool
    \/ Backoff
    \/ Wake
    \/ LoopNext
    \/ DescParse
    \/ DescExcept
    \/ DescNextUrl

SpecDescription == Init /\ [][NextDescription]_vars

\* successive _get / put calls on one SomneoClient
NextRepeat ==
    \/ \E m \in Methods : ClientCall(m)
    \/ \E m \in Methods : RepeatCall(m)
    \/ SendAttempt
    \/ ReceiveOutcome
    \/ ExceptHandler
    \/ ResetPool
    \/ Backoff
    \/ Wake
    \/ LoopNext
    \/ ClientFinish

SpecRepeat == Init /\ [][NextRepeat]_vars

\* a SomneoClient call while a second thread uses the same session
NextConcurrent ==
    \/ \E m \in Methods : ClientCall(m)
    \/ SendAttempt
    \/ ReceiveOutcome
    \/ ExceptHandler
    \/ ResetPool
    \/ Backoff
    \/ Wake
    \/ LoopNext
    \/ ClientFinish
    \/ T2Send
    \/ T2Receive

SpecConcurrent == Init /\ [][NextConcurrent]_vars

\* a next_alarm call over cached alarms
NextNextAlarm ==
    \/ CacheLoaded(AlarmsForNextAlarm, LightsForNextAlarm)
    \/ NextAlarmCall
    \/ NextAlarmIter
    \/ NextAlarmReturn

SpecNextAlarm == Init /\ [][NextNextAlarm]_vars

\* a mutating operation of the legacy client over a loaded cache
NextMutate ==
    \/ CacheLoaded(AlarmsForMutation, LightsForMutation)
    \/ ToggleLight
    \/ ToggleNightLight
    \/ ToggleAlarm
    \/ SetAlarm
    \/ SetPowerwake
    \/ LegacySend
    \/ LegacyReceive
    \/ LegacyFinish

SpecMutate == Init /\ [][NextMutate]_vars

\* successive Somneo.update calls
NextUpdate ==
    \/ UpdateCall
    \/ LegacySend
    \/ LegacyReceive
    \/ LegacyFinish
    \/ UpdateNext

SpecUpdate == Init /\ [][NextUpdate]_vars

-----------------------------------------------------------------------------
(* Properties of SomneoSession.request and the two client call paths *)

\* attempt i of the call ended in an exception raised inside the try block
Failed(i) == log[i].raised # NoExc

\* attempt i of the call got a 200 response from the device
Succeeded(i) == log[i].outcome.type = "resp" /\ log[i].outcome.status = 200

\* C1: after at most 2 failed attempts (any mix of failure kinds) followed by a
\* successful response, request returns that response; the call never makes more
\* than 3 attempts, and it does not give up on transport failures before the third.
C1_RetryBound ==
    /\ Len(log) <= 3
    /\ attempt <= 3
    /\ \A n \in 1..Len(log) :
         (Succeeded(n) /\ n - 1 <= 2 /\ \A i \in 1..(n - 1) : Failed(i))
           => /\ request_result.type = "return"
              /\ request_result.resp = Len(responses)
              /\ responses[request_result.resp].status = 200
              /\ responses[request_result.resp].body = log[n].outcome.body
    /\ (request_result.type = "raise" /\ Len(log) >= 1
          /\ \A i \in 1..Len(log) : log[i].outcome.type = "exc")
         => Len(log) = 3

C1_Witness ==
    /\ pc = "done" /\ Len(log) = 3
    /\ Failed(1) /\ Failed(2) /\ Succeeded(3)
    /\ kinds[1].err_type # kinds[2].err_type
    /\ result.type = "return"

\* C2: a 422 response on attempt 1 ends the call there: one attempt, no backoff
\* sleep, and the error raised is the invalid-URL error.
C2_InvalidURLFastFail ==
    (Len(log) >= 1 /\ log[1].outcome.status = 422)
      => /\ Len(log) = 1
         /\ attempt = 1
         /\ sleeps = <<>>
         /\ (pc = "done" => request_result = Raise(Exc("SomneoInvalidURLError")))

\* C3: when all 3 attempts fail, the call raises, and what it raises is the third
\* failure (so its kind is the kind of the third failure).
C3_RetryExhaustion ==
    (pc = "done" /\ Len(log) = 3 /\ \A i \in 1..3 : Failed(i))
      => /\ request_result.type = "raise"
         /\ request_result.exc = log[3].raised
         /\ classify_error(request_result.exc).err_type = kinds[3].err_type
         /\ result = request_result

C3_Witness ==
    /\ pc = "done" /\ Len(log) = 3 /\ \A i \in 1..3 : Failed(i)
    /\ kinds[1].err_type # kinds[3].err_type
    /\ kinds[2].err_type # kinds[3].err_type
    /\ request_result.exc = log[3].raised

\* C4 (as claimed): _reset_session_pool is invoked at most once in a call, also
\* when an earlier invocation failed.
C4_ResetInvokedAtMostOnce == Len(reset_log) <= 1

\* C4 (amended): the pool reset succeeds at most once in a call and is never
\* invoked again after it succeeded; it is invoked at most once per failed attempt.
C4_ResetSucceedsAtMostOnce ==
    /\ Cardinality({i \in 1..Len(reset_log) : reset_log[i]}) <= 1
    /\ \A i \in 1..Len(reset_log) : reset_log[i] => i = Len(reset_log)
    /\ Len(reset_log) <= Len(kinds)

C4_Witness ==
    /\ pc = "done"
    /\ reset_log = <<FALSE, TRUE>>
    /\ Len(kinds) = 3 /\ \A i \in 1..3 : kinds[i].reset_pool

\* C5: with use_session disabled every attempt goes out as a standalone request,
\* the call returns the device's response when there is one, and the pool is
\* never reset.
C5_UnpooledReturnsResponse ==
    (api = "SomneoClient" /\ ~use_session)
      => /\ reset_log = <<>>
         /\ pc = "done"
              => /\ Len(log) >= 1
                 /\ (log[Len(log)].outcome.type = "resp"
                       /\ log[Len(log)].outcome.status # 422)
                      => request_result.type = "return"

\* C6: the legacy request path always comes to an end: a running call eventually
\* returns or raises, also against a device that refuses every connection.
C6_LegacyTerminates == (pc = "legacy_try") ~> (pc \in {"legacy_json", "done"})

\* C7: the sleep after failed attempt n is min(weight * 2^(n-1), 10 s) for the
\* weight of that failure's kind; for one kind it never decreases with n and it
\* never exceeds 10 s.
C7_BackoffDelay ==
    \A n \in 1..Len(sleeps) :
        LET w == CASE kinds[n].err_type = "ConnectTimeout"     -> 150
                   [] kinds[n].err_type = "ReadTimeout"        -> 200
                   [] kinds[n].err_type = "NewConnectionError" -> 25
                   [] kinds[n].err_type = "ConnectionError"    -> 100
                   [] kinds[n].err_type = "Timeout"            -> 50
                   [] kinds[n].err_type = "RequestException"   -> 75
        IN  /\ sleeps[n] = (IF w * Pow2(n - 1) <= 1000 THEN w * Pow2(n - 1) ELSE 1000)
            /\ sleeps[n] <= 1000
            /\ \A m \in 1..(n - 1) :
                 kinds[m].err_type = kinds[n].err_type => sleeps[m] <= sleeps[n]

C7_Witness ==
    /\ Len(sleeps) = 2
    /\ kinds[1].err_type = "ReadTimeout" /\ kinds[2].err_type = "ReadTimeout"
    /\ sleeps = <<200, 400>>

\* C8: every failure is classified as the table says, by the first row it fits:
\* connect-timeout (reset, 1.5), read-timeout (no reset, 2.0), connection error
\* caused by a new-connection failure (reset, 0.25), other connection error
\* (reset, 1.0), generic timeout (no reset, 0.5), anything else (no reset, 0.75).
C8_Classification ==
    \A i \in 1..Len(kinds) :
        LET x == log[i].raised
            k == kinds[i]
            conn == x.cls \in {"ConnectionError", "SSLError"}
        IN  k = CASE x.cls = "ConnectTimeout"
                       -> [err_type |-> "ConnectTimeout", reset_pool |-> TRUE, weight |-> 150]
                  [] x.cls = "ReadTimeout"
                       -> [err_type |-> "ReadTimeout", reset_pool |-> FALSE, weight |-> 200]
                  [] conn /\ x.cause = "NewConnectionError"
                       -> [err_type |-> "NewConnectionError", reset_pool |-> TRUE, weight |-> 25]
                  [] conn /\ x.cause # "NewConnectionError"
                       -> [err_type |-> "ConnectionError", reset_pool |-> TRUE, weight |-> 100]
                  [] x.cls = "Timeout"
                       -> [err_type |-> "Timeout", reset_pool |-> FALSE, weight |-> 50]
                  [] OTHER
                       -> [err_type |-> "RequestException", reset_pool |-> FALSE, weight |-> 75]

C8_Witness ==
    /\ Len(kinds) = 3
    /\ log[1].raised = [cls |-> "ConnectTimeout", cause |-> "NewConnectionError"]
    /\ kinds[1].err_type = "ConnectTimeout"
    /\ log[2].raised = [cls |-> "SSLError", cause |-> "NewConnectionError"]
    /\ kinds[2].err_type = "NewConnectionError"
    /\ log[3].raised = [cls |-> "Timeout", cause |-> "NewConnectionError"]
    /\ kinds[3].err_type = "Timeout"

\* C9: a failure status other than 422 ends a SomneoClient call at once with an
\* HTTP status error: it is the call's last attempt, nothing is classified for a
\* retry, no backoff sleep follows it.
C9_StatusErrorNotRetried ==
    \A i \in 1..Len(log) :
        (api = "SomneoClient" /\ log[i].outcome.type = "resp"
           /\ log[i].outcome.status >= 400 /\ log[i].outcome.status # 422)
          => /\ Len(log) = i
             /\ Len(kinds) < i
             /\ Len(sleeps) < i
             /\ (pc = "done" => result = Raise(Exc("HTTPError")))

\* C10: when a SomneoClient call has ended, every response object it obtained
\* has been closed.
C10_ResponsesReleased ==
    (api = "SomneoClient" /\ pc = "done")
      => \A i \in 1..Len(responses) : responses[i].closed

\* failure kinds that call for a pool reset
ResetWorthy(k) == k.err_type \in {"ConnectTimeout", "NewConnectionError", "ConnectionError"}

\* C15: between two consecutive attempts of a call there is exactly one backoff
\* sleep, the next attempt does not start while the sleep lasts, and no sleep
\* follows the final attempt or a successful one.
C15_OneSleepBetweenAttempts ==
    api = "SomneoClient"
      => /\ pc \in {"attempt", "in_flight"} => Len(sleeps) = attempt - 1 /\ Len(log) = attempt - 1
         /\ pc = "sleeping" => Len(sleeps) = attempt /\ Len(log) = attempt /\ attempt < 3
         /\ (pc \in {"client", "done"} /\ Len(log) >= 1) => Len(sleeps) = Len(log) - 1

C15_Witness ==
    /\ pc = "done" /\ Len(log) = 3 /\ Len(sleeps) = 2
    /\ \A i \in 1..3 : Failed(i)

\* C16: with pooling, the first reset-worthy failure of a call invokes the pool
\* reset, before the next attempt starts; a call whose failures are all of kinds
\* that are not reset-worthy never resets the pool.
C16_ResetOnFirstResetWorthy ==
    (api = "SomneoClient" /\ use_session)
      => /\ reset_at # <<>>
              => /\ ResetWorthy(kinds[reset_at[1]])
                 /\ \A i \in 1..(reset_at[1] - 1) : ~ResetWorthy(kinds[i])
         /\ \A i \in 1..Len(kinds) :
              (ResetWorthy(kinds[i]) /\ (attempt > i \/ pc \in {"backoff", "sleeping", "loop", "done"}))
                => (reset_at # <<>> /\ reset_at[1] <= i)
         /\ (\A i \in 1..Len(kinds) : ~ResetWorthy(kinds[i])) => reset_log = <<>>

C16_Witness ==
    /\ pc = "in_flight" /\ attempt = 3
    /\ ~ResetWorthy(kinds[1]) /\ ResetWorthy(kinds[2])
    /\ reset_at = <<2>>

\* C17: a pool reset is always followed by a further attempt of the same call:
\* it never follows the failure of the final (third) attempt.
C17_ResetOnlyToRetry ==
    \A j \in 1..Len(reset_at) :
        /\ reset_at[j] < 3
        /\ pc = "done" => Len(log) > reset_at[j]

\* C19: a pool reset that completes leaves base_url, use_session, the timeout,
\* the pool sizes and the adapter retry settings as they were, and leaves an
\* adapter with those pool sizes and retry settings mounted for http and https.
C19_ResetKeepsConfig ==
    [][(pc = "reset" /\ reset_log' # reset_log /\ reset_log'[Len(reset_log')])
        => /\ use_session' = use_session
           /\ session'.base_url = session.base_url
           /\ session'.timeout = session.timeout
           /\ session'.pool_connections = session.pool_connections
           /\ session'.pool_maxsize = session.pool_maxsize
           /\ session'.adapter_retries = session.adapter_retries
           /\ session'.adapter_backoff_factor = session.adapter_backoff_factor
           /\ DOMAIN session'.adapters = {"http://", "https://"}
           /\ \A p \in {"http://", "https://"} :
                /\ session'.adapters[p].pool_connections = session.pool_connections
                /\ session'.adapters[p].pool_maxsize = session.pool_maxsize
                /\ session'.adapters[p].max_retries.total = session.adapter_retries
                /\ session'.adapters[p].max_retries.backoff_factor = session.adapter_backoff_factor
                /\ session'.adapters[p].max_retries.status_forcelist = {429, 500, 502, 503, 504}
      ]_vars

C19_Witness ==
    /\ reset_log = <<FALSE, TRUE>>
    /\ session.base_url = "https://host/di/v1/products/1/"
    /\ session.timeout = <<200, 800>>
    /\ \A p \in {"http://", "https://"} :
         session.adapters[p].pool_connections = 1 /\ session.adapters[p].pool_maxsize = 1

-----------------------------------------------------------------------------
(* get_description_xml *)

InDescription == op = "get_description_xml"

\* the running request's last attempt got a 200 answer with a well-formed body
LastAnswerValid ==
    /\ Len(log) > 0
    /\ log[Len(log)].outcome.type = "resp"
    /\ log[Len(log)].outcome.status = 200
    /\ log[Len(log)].outcome.body = "xml"

ReturnedRoot ==
    /\ result.type = "return"
    /\ result.resp = r
    /\ r \in 1..Len(responses)
    /\ responses[r].status = 200
    /\ responses[r].body = "xml"

\* how the retrieval over the current URL failed, read off the request's result
UrlFailure ==
    IF request_result.type = "raise" THEN request_result.exc
    ELSE IF responses[r].status >= 400 THEN Exc("HTTPError")
    ELSE Exc("ParseError")

\* C11: in pooled mode no failure of the HTTPS retrieval ends get_description_xml
\* (a call that ends at the first URL has returned its root), and a call whose
\* HTTP retrieval got valid XML after the HTTPS retrieval failed returns the root
\* parsed from the HTTP response and raises nothing.
C11_DiscoveryFallback ==
    (InDescription /\ use_session /\ pc = "done")
      => /\ url_idx = 1 => ReturnedRoot
         /\ (url_idx = 2 /\ LastAnswerValid)
              => /\ contacted[1].failed_with # NoExc
                 /\ contacted[2].prefix = "http://"
                 /\ ReturnedRoot

C11_Witness ==
    /\ InDescription /\ pc = "done" /\ url_idx = 2
    /\ contacted[1].failed_with = Exc("ParseError")
    /\ contacted[2].prefix = "http://"
    /\ LastAnswerValid
    /\ ReturnedRoot

C20_FallbackOrder ==
    InDescription
      => /\ Len(contacted) \in 1..2
         /\ Len(contacted) = url_idx
         /\ contacted[1].prefix = "https://"
         /\ Len(contacted) = 2
              => /\ contacted[2].prefix = "http://"
                 /\ contacted[1].failed_with # NoExc
         /\ (contacted[1].failed_with = NoExc /\ pc = "done" /\ use_session)
              => Len(contacted) = 1 /\ ReturnedRoot
         /\ (contacted[1].failed_with = Exc("ParseError") /\ pc # "desc_next")
              => Len(contacted) = 2
         /\ (Len(contacted) = 1 /\ pc = "done") => result.exc # Exc("ParseError")

C20_Witness ==
    /\ InDescription /\ pc = "in_flight"
    /\ contacted = <<[prefix |-> "https://", failed_with |-> Exc("ParseError")],
                     [prefix |-> "http://", failed_with |-> NoExc]>>

-----------------------------------------------------------------------------
(* Somneo.update *)

\* the paths of the sensor/status tier
FastPaths == {"wusts", "wusrd"}

\* C13: an update call made less than 5 seconds after the previous one requests
\* nothing, and one made less than 60 seconds after it requests only the
\* sensor/status paths.
C13_TierGating ==
    (op = "update" /\ prev_update_at >= 0)
      => /\ now - prev_update_at < 5 * 100 => fetched = <<>>
         /\ now - prev_update_at < 60 * 100
              => \A i \in 1..Len(fetched) : fetched[i] \in FastPaths

-----------------------------------------------------------------------------
(* Repeated calls on one SomneoClient *)

-----------------------------------------------------------------------------
(* Two threads on one SomneoSession *)

\* C18: no pool reset of one call runs while the other call has an attempt in
\* flight on the same session.
C18_ResetExcludesInFlight == ~overlapped

-----------------------------------------------------------------------------
(* next_alarm *)

\* the first time after `nowr` at which an alarm fires: today or one of the next
\* seven days, on a day the alarm is set for (any day for a 'tomorrow' alarm)
Upcoming(alarm, nowr) ==
    MinOf({ alarm.time + d * SlotsPerDay : d \in
              { k \in 0..7 : /\ alarm.days = {} \/ TestDay(nowr.wd, k % 7) \in alarm.days
                             /\ alarm.time + k * SlotsPerDay > nowr.t } })

EnabledAlarms == { i \in 1..Len(alarm_data) : alarm_data[i].enabled }

\* C21: next_alarm returns None when no alarm is enabled; otherwise it returns a
\* time that is later than now and no later than the next firing of any enabled
\* alarm.
C21_NextAlarmEarliest ==
    (op = "next_alarm" /\ pc = "done")
      => /\ EnabledAlarms = {} => ~na_result.some
         /\ EnabledAlarms # {}
              => /\ na_result.some
                 /\ na_result.t > na_now.t
                 /\ \A i \in EnabledAlarms : na_result.t <= Upcoming(alarm_data[i], na_now)

-----------------------------------------------------------------------------
(* The legacy client's mutating operations *)

\* C22: when the PUT of set_alarm, set_powerwake, toggle_alarm, toggle_light or
\* toggle_night_light raises, alarm_data and light_data hold what they held
\* before the call.
C22_FailedPutKeepsCache ==
    (op \in MutatingOps /\ pc = "done" /\ result.type = "raise")
      => <<alarm_data, light_data>> = cache_before

=============================================================================
